---- MODULE Spec2Model ----
(***************************************************************************)
(* A model of the NEET study tracker: the JSON persistence store           *)
(* (data_manager.py), the study log of the Streamlit application (Neet.py),*)
(* the statistics of study_analyzer.py and the account store of            *)
(* auth_manager.py.  Each component has its own next-state relation and    *)
(* specification; the variables of the other components stay unchanged.    *)
(***************************************************************************)
EXTENDS Integers, Sequences, FiniteSets, Bags, TLC

VARIABLES
    \* ---- data_manager.py: one file name of the data directory ----
    mainFile,      \* content of <data_dir>/<filename>
    backupFile,    \* content of <data_dir>/<filename>.backup
    pc,            \* position of the process inside save_data
    arg,           \* the `data` argument of the running save_data
    prev,          \* history: content of the main file when save_data was called
    ret,           \* what the last save_data did: "none", "True", "False", "raised"
    raisedIn,      \* history: the step of the last save_data that raised, or "none"
    crashAt,       \* history: the step at which the process crashed, or "none"
    stale,         \* history: the backup a crash after the rename left behind
    loaded,        \* what the last load_data returned
    \* ---- Neet.py and study_analyzer.py: the study log ----
    data,          \* st.session_state.data: the in-memory study log
    studyFile,     \* content of neet_study_data.json: a log, or NoFile
    stats,         \* what calculate_stats() returned in the current page run, or NoResult
    analyzed,      \* what StudyAnalyzer(data)._calculate_streak() gave in it, or NoResult
    session,       \* st.session_state: weekly_targets, daily_schedule and profile
    sessionFiles,  \* content of weekly_targets.json, daily_schedule.json, profile_data.json
    \* ---- auth_manager.py ----
    users,         \* AuthManager.users: the account map
    authFile,      \* content of auth.json
    clock,         \* datetime.now(): local wall-clock time, in minutes
    utcOffset,     \* the machine's time zone: local time minus UTC, in minutes
    ticks,         \* number of clock advances so far
    issued,        \* history: the tokens authenticate_user has returned, with their time
    authResult,    \* what the last AuthManager call returned
    activeRun,     \* history: failed password attempts since the account last became Active
    trailingFails, \* history: failed password attempts since the last success
    disk,          \* the environment: how writing auth.json can fail
    \* ---- functions called on their own ----
    called,        \* the last call of one of them: function, argument, result
    \* ---- notification_manager.py ----
    notification_queue,  \* NotificationManager.notification_queue
    is_running,    \* NotificationManager.is_running
    loops,         \* the threads running _notification_loop, each with its position
    ntime,         \* datetime.now() as the notification threads read it
    accepted,      \* history: the scheduled times of the notifications accepted, as a bag
    sent           \* history: the calls of _send_notification, as a bag

storeVars == <<mainFile, backupFile, pc, arg, prev, ret, raisedIn, crashAt, stale,
              loaded>>

appVars == <<data, studyFile, stats, analyzed, session, sessionFiles>>

authVars == <<users, authFile, clock, utcOffset, ticks, issued, authResult,
              activeRun, trailingFails, disk>>

calcVars == <<called>>

notifyVars == <<notification_queue, is_running, loops, ntime, accepted, sent>>

vars == <<storeVars, appVars, authVars, calcVars, notifyVars>>

(***************************************************************************)
(* data_manager.py                                                         *)
(***************************************************************************)

\* The collections handed to save_data are numbered 1..NumCollections; the
\* collection Unserializable holds a value json.dump cannot encode (a set,
\* a datetime), so that json.dump raises TypeError after open() has already
\* created or truncated the file.
NumCollections == 2
Unserializable == 0
Collections == 1..NumCollections

\* The collection Tupled holds a tuple or a dict with integer keys:
\* json.dump writes the tuple as a list and the keys as strings, so that
\* the text it writes is that of another collection, AsJson.
Tupled == -1
AsJson == -2
SaveArgs == Collections \cup {Unserializable, Tupled}

\* A mutant of JsonValue: every collection is written as Tupled is.
JsonValueCoerced(d) == AsJson

\* The value whose JSON text json.dump(d) writes.
JsonValue(d) == IF d = Tupled THEN AsJson ELSE d

\* A file is absent, or holds the complete JSON text of a collection, or
\* holds a strict prefix of one (open(..., 'w') truncates; json.dump writes
\* in chunks).
Absent == [kind |-> "absent", data |-> 0]
Full(d) == [kind |-> "full", data |-> d]
Partial == [kind |-> "partial", data |-> 0]
FileContents == {Absent, Partial} \cup {Full(d) : d \in Collections \cup {AsJson}}

\* The complete text json.dump(d, f, indent=4) writes.
JsonText(d) == Full(JsonValue(d))

\* What load_data returned: nothing yet, a parsed value, [], or an exception
\* that left it; with the file it found and the exception raised inside.
NoLoad == [kind |-> "none", data |-> 0, file |-> Absent, exc |-> "none"]

\* A mutant of LoadCatches: only a parse error is caught.
LoadCatchesParseErrors(exc) == exc = "JSONDecodeError"

\* except Exception as e: OSError and json.JSONDecodeError are Exceptions.
LoadCatches(exc) == exc \in {"OSError", "JSONDecodeError"}

StoreInit ==
    /\ mainFile = Absent
    /\ backupFile = Absent
    /\ pc = "idle"
    /\ arg = Unserializable
    /\ prev = Absent
    /\ ret = "none"
    /\ raisedIn = "none"
    /\ crashAt = "none"
    /\ stale = Absent
    /\ loaded = NoLoad

\* load_data: if os.path.exists: open (which can raise OSError), json.load
\* (which raises on a text that is no JSON); return [] when the file is
\* absent; except Exception: return [].
load_data ==
    /\ pc = "idle"
    /\ \E readable \in BOOLEAN :
           LET exc == IF mainFile.kind = "absent" THEN "none"
                      ELSE IF ~readable THEN "OSError"
                      ELSE IF mainFile.kind = "partial" THEN "JSONDecodeError"
                      ELSE "none"
               res == [NoLoad EXCEPT !.file = mainFile, !.exc = exc]
           IN  loaded' =
                   IF exc # "none"
                   THEN IF LoadCatches(exc) THEN [res EXCEPT !.kind = "empty"]
                                            ELSE [res EXCEPT !.kind = "raised"]
                   ELSE IF mainFile.kind = "absent"
                   THEN [res EXCEPT !.kind = "empty"]
                   ELSE [res EXCEPT !.kind = "list", !.data = mainFile.data]
    /\ UNCHANGED <<mainFile, backupFile, pc, arg, prev, ret, raisedIn, crashAt, stale>>
    /\ UNCHANGED <<appVars, authVars, calcVars, notifyVars>>

\* save_data is entered: file_path and backup_path are computed.
save_data_call ==
    /\ pc = "idle"
    /\ \E d \in SaveArgs : arg' = d
    /\ prev' = mainFile
    /\ pc' = "backup"
    /\ ret' = "none"
    /\ raisedIn' = "none"
    /\ loaded' = NoLoad
    /\ stale' = IF ret = "True" THEN Absent ELSE stale
    /\ UNCHANGED <<mainFile, backupFile, crashAt>>
    /\ UNCHANGED <<appVars, authVars, calcVars, notifyVars>>

\* if os.path.exists(file_path): os.replace(file_path, backup_path)
save_data_backup ==
    /\ pc = "backup"
    /\ IF mainFile # Absent
       THEN \/ /\ backupFile' = mainFile
               /\ mainFile' = Absent
               /\ pc' = "open"
               /\ UNCHANGED raisedIn
            \/ /\ pc' = "except"
               /\ raisedIn' = "backup"
               /\ UNCHANGED <<mainFile, backupFile>>
       ELSE /\ pc' = "open"
            /\ UNCHANGED <<mainFile, backupFile, raisedIn>>
    /\ UNCHANGED <<arg, prev, ret, crashAt, stale, loaded>>
    /\ UNCHANGED <<appVars, authVars, calcVars, notifyVars>>

\* with open(file_path, 'w') as f: the file is created empty, or open raises.
save_data_open ==
    /\ pc = "open"
    /\ \/ /\ mainFile' = Partial
          /\ pc' = "write"
          /\ UNCHANGED raisedIn
       \/ /\ pc' = "except"
          /\ raisedIn' = "open"
          /\ UNCHANGED mainFile
    /\ UNCHANGED <<backupFile, arg, prev, ret, crashAt, stale, loaded>>
    /\ UNCHANGED <<appVars, authVars, calcVars, notifyVars>>

\* json.dump(data, f, indent=4): the whole text is written, or the dump
\* raises (TypeError on an unserializable value, OSError on a full disk)
\* and leaves a prefix of the text behind.
save_data_write ==
    /\ pc = "write"
    /\ \/ /\ arg # Unserializable
          /\ mainFile' = JsonText(arg)
          /\ pc' = "remove"
          /\ UNCHANGED raisedIn
       \/ /\ mainFile' = Partial
          /\ pc' = "except"
          /\ raisedIn' = "write"
    /\ UNCHANGED <<backupFile, arg, prev, ret, crashAt, stale, loaded>>
    /\ UNCHANGED <<appVars, authVars, calcVars, notifyVars>>

\* A mutant of save_data_remove: True is returned and the backup is left.
save_data_keeps_backup ==
    /\ pc = "remove"
    /\ pc' = "idle"
    /\ ret' = "True"
    /\ UNCHANGED <<mainFile, backupFile, arg, prev, raisedIn, crashAt, stale, loaded>>
    /\ UNCHANGED <<appVars, authVars, calcVars, notifyVars>>

\* if os.path.exists(backup_path): os.remove(backup_path); return True
save_data_remove ==
    /\ pc = "remove"
    /\ IF backupFile # Absent
       THEN \/ /\ backupFile' = Absent
               /\ pc' = "idle"
               /\ ret' = "True"
               /\ UNCHANGED raisedIn
            \/ /\ pc' = "except"
               /\ raisedIn' = "remove"
               /\ UNCHANGED <<backupFile, ret>>
       ELSE /\ pc' = "idle"
            /\ ret' = "True"
            /\ UNCHANGED <<backupFile, raisedIn>>
    /\ UNCHANGED <<mainFile, arg, prev, crashAt, stale, loaded>>
    /\ UNCHANGED <<appVars, authVars, calcVars, notifyVars>>

\* except Exception: if os.path.exists(backup_path):
\*     os.replace(backup_path, file_path); return False
\* The os.replace of the handler is not guarded: when it raises too, the
\* exception leaves save_data.
save_data_except ==
    /\ pc = "except"
    /\ IF backupFile # Absent
       THEN \/ /\ mainFile' = backupFile
               /\ backupFile' = Absent
               /\ ret' = "False"
            \/ /\ ret' = "raised"
               /\ UNCHANGED <<mainFile, backupFile>>
       ELSE /\ ret' = "False"
            /\ UNCHANGED <<mainFile, backupFile>>
    /\ pc' = "idle"
    /\ UNCHANGED <<arg, prev, raisedIn, crashAt, stale, loaded>>
    /\ UNCHANGED <<appVars, authVars, calcVars, notifyVars>>

\* The process dies inside save_data; the files stay as they are.
Crash ==
    /\ pc \in {"backup", "open", "write", "remove", "except"}
    /\ crashAt' = pc
    /\ pc' = "crashed"
    /\ stale' = IF pc \in {"open", "write"} /\ backupFile # Absent
                THEN backupFile
                ELSE stale
    /\ UNCHANGED <<mainFile, backupFile, arg, prev, ret, raisedIn, loaded>>
    /\ UNCHANGED <<appVars, authVars, calcVars, notifyVars>>

\* The application is started again: DataManager.__init__.
Restart ==
    /\ pc = "crashed"
    /\ pc' = "idle"
    /\ crashAt' = "none"
    /\ ret' = "none"
    /\ raisedIn' = "none"
    /\ loaded' = NoLoad
    /\ UNCHANGED <<mainFile, backupFile, arg, prev, stale>>
    /\ UNCHANGED <<appVars, authVars, calcVars, notifyVars>>

StoreNext ==
    \/ load_data
    \/ save_data_call
    \/ save_data_backup
    \/ save_data_open
    \/ save_data_write
    \/ save_data_remove
    \/ save_data_except
    \/ Crash
    \/ Restart

(***************************************************************************)
(* Study entries: Neet.py show_daily_entry, data_manager.py validator      *)
(***************************************************************************)

\* The closed set of subjects.
valid_subjects == {"Physics", "Chemistry", "Botany", "Zoology"}

\* A Date value.  kind "ymd" is a string of the form <y>-<m>-<d> with
\* numeric fields (not necessarily a calendar date), "text" any other
\* string, "nonstr" a value that is no string (None, a number).
Ymd(y, m, d) == [kind |-> "ymd", y |-> y, m |-> m, d |-> d]
TextDate == [kind |-> "text", y |-> 0, m |-> 0, d |-> 0]
NonStrDate == [kind |-> "nonstr", y |-> 0, m |-> 0, d |-> 0]

IsLeap(y) == (y % 4 = 0) /\ ((y % 100 # 0) \/ (y % 400 = 0))

DaysInMonth(y, m) ==
    IF m = 2 THEN (IF IsLeap(y) THEN 29 ELSE 28)
    ELSE IF m \in {4, 6, 9, 11} THEN 30 ELSE 31

\* datetime.strptime(s, '%Y-%m-%d') and pd.to_datetime(s) succeed.
DateParses(dt) ==
    /\ dt.kind = "ymd"
    /\ dt.y \in 1..9999
    /\ dt.m \in 1..12
    /\ dt.d \in 1..DaysInMonth(dt.y, dt.m)

RECURSIVE DaysBeforeMonth(_, _)
DaysBeforeMonth(y, m) ==
    IF m = 1 THEN 0 ELSE DaysBeforeMonth(y, m - 1) + DaysInMonth(y, m - 1)

\* date.toordinal(): what (a - b).days is the difference of.
Ordinal(dt) ==
    LET y1 == dt.y - 1
    IN  y1 * 365 + (y1 \div 4) - (y1 \div 100) + (y1 \div 400)
        + DaysBeforeMonth(dt.y, dt.m) + dt.d

\* A 'Study Duration' value: a string, by the tokens str.split() gives, or
\* a value that is no string.  A token is a number float() accepts, in
\* half hours (the step of the form's number_input), the text "nan", which
\* float() accepts too, or a word it rejects.
Num(halves) == [t |-> "num", v |-> halves]
NaN == [t |-> "nan", v |-> 0]
Hr == [t |-> "hr", v |-> 0]
Word == [t |-> "word", v |-> 0]
DurStr(tokens) == [kind |-> "str", tokens |-> tokens]
DurNonStr == [kind |-> "nonstr", tokens |-> <<>>]

\* A 'Questions Attempted' value: "" or a string int() accepts or rejects.
QBlank == [kind |-> "blank", v |-> 0]
QInt(n) == [kind |-> "int", v |-> n]
QWord == [kind |-> "word", v |-> 0]

\* One record of the log; `missing` holds the required keys it lacks.
Entry(dt, subj, dur, q) ==
    [Date |-> dt, Subject |-> subj, Duration |-> dur, Questions |-> q,
     missing |-> {}]

required_fields == {"Date", "Subject", "Study Duration"}

\* validate_study_entry: "True", "False", or the exception that leaves it.
validate_study_entry(entry) ==
    IF entry.missing \cap required_fields # {} THEN "False"
    ELSE IF entry.Date.kind = "nonstr" THEN "TypeError"
    ELSE IF ~DateParses(entry.Date) THEN "False"
    ELSE IF entry.Subject \notin valid_subjects THEN "False"
    ELSE IF entry.Duration.kind = "nonstr" THEN "False"
    ELSE IF entry.Duration.tokens = <<>> THEN "IndexError"
    ELSE IF entry.Duration.tokens[1].t \notin {"num", "nan"} THEN "False"
    ELSE IF entry.Duration.tokens[1].t = "nan" THEN "True"
    ELSE IF entry.Duration.tokens[1].v < 0 \/ entry.Duration.tokens[1].v > 2 * 24
         THEN "False"
    ELSE "True"

(***************************************************************************)
(* Neet.py: the study log, and the streaks of Neet.py and study_analyzer.py*)
(***************************************************************************)

\* Bound on the length of the log.
MaxEntries == 3

NoFile == [exists |-> FALSE, log |-> <<>>]
FileOf(log) == [exists |-> TRUE, log |-> log]
NoResult == [kind |-> "none", raised |-> FALSE, streak |-> 0,
             total_hours |-> 0, total_questions |-> 0]

\* What the pages hold before any of them has loaded or set a collection,
\* and a file that does not exist.
Unset == <<"unset", 0>>
NoJson == <<"absent", 0>>

\* The order of the subject tabs of the daily-entry page.
SubjectTabs == <<"Physics", "Chemistry", "Botany", "Zoology">>

\* The dates picked in st.date_input: three consecutive days across the end
\* of February 2025 (an imported log brings a later day, 3 March).
FormDates == {Ymd(2025, 2, 27), Ymd(2025, 2, 28), Ymd(2025, 3, 1)}

\* What is typed into one subject tab: hours in half hours, whether topics
\* are filled in, questions.  Only the tabs of FilledTabs are ever filled.
BlankTab == [hours |-> 0, topics |-> FALSE, questions |-> 0]
TabInputs == {BlankTab,
              [hours |-> 4, topics |-> TRUE, questions |-> 5],
              [hours |-> 0, topics |-> TRUE, questions |-> 0]}
FilledTabs == {"Physics", "Chemistry"}
Forms == {f \in [valid_subjects -> TabInputs] :
              \A subj \in valid_subjects \ FilledTabs : f[subj] = BlankTab}

\* The entry built for one tab.
FormEntry(date, subj, tab) ==
    Entry(date, subj,
          IF tab.hours # 0 THEN DurStr(<<Num(tab.hours), Hr>>) ELSE DurStr(<<>>),
          IF tab.questions # 0 THEN QInt(tab.questions) ELSE QBlank)

\* `entries` of show_daily_entry: one entry per tab with some content.
RECURSIVE FormEntries(_, _, _)
FormEntries(date, form, i) ==
    IF i > Len(SubjectTabs) THEN <<>>
    ELSE LET tab == form[SubjectTabs[i]]
             rest == FormEntries(date, form, i + 1)
         IN  IF tab.hours > 0 \/ tab.topics \/ tab.questions > 0
             THEN <<FormEntry(date, SubjectTabs[i], tab)>> \o rest
             ELSE rest

\* A mutant of Neet_save_data: only the newest entry is written.
Neet_save_newest(log) == FileOf(<<log[Len(log)]>>)

\* save_data() of Neet.py: the log is dumped to neet_study_data.json.
Neet_save_data(log) == FileOf(log)

\* "Save Study Entry".
SaveStudyEntry ==
    \E date \in FormDates, form \in Forms :
        LET entries == FormEntries(date, form, 1)
        IN  /\ Len(data) + Len(entries) <= MaxEntries
            /\ IF entries # <<>>
               THEN /\ data' = data \o entries
                    /\ studyFile' = Neet_save_data(data')
               ELSE UNCHANGED <<data, studyFile>>
            /\ stats' = NoResult
            /\ analyzed' = NoResult
            /\ UNCHANGED <<session, sessionFiles>>
            /\ UNCHANGED <<storeVars, authVars, calcVars, notifyVars>>

\* Uploaded backup files.  An object is given by its keys and their values,
\* an array by its elements (`key in imported_data` asks for an element);
\* a key that is not there has the value Missing.
required_keys == {"study_data", "weekly_targets", "daily_schedule", "profile"}
other_keys == required_keys \ {"study_data"}
Missing == <<>>
GoodEntry(date) == Entry(date, "Physics", DurStr(<<Num(4), Hr>>), QInt(5))
Bundle(study_data, tag) ==
    [shape |-> "object", keys |-> required_keys, study_data |-> study_data,
     weekly_targets |-> <<"targets", tag>>,
     daily_schedule |-> <<"schedule", tag>>,
     profile |-> <<"profile", tag>>]
Without(bundle, key) ==
    [[bundle EXCEPT !.keys = @ \ {key}] EXCEPT ![key] = Missing]
ImportBundles ==
    { Bundle(<<GoodEntry(Ymd(2025, 2, 25))>>, 1),
      Bundle(<<GoodEntry(Ymd(2025, 3, 3))>>, 1),
      Bundle(<<Entry(Ymd(2025, 2, 28), "Math", DurStr(<<Num(4), Hr>>), QBlank)>>, 1),
      Bundle(<<GoodEntry(Ymd(2025, 2, 30))>>, 1),
      Bundle(<<Entry(Ymd(2025, 3, 1), "Botany", DurStr(<<Num(50), Hr>>), QInt(5))>>, 1),
      Bundle(<<Entry(Ymd(2025, 3, 2), "Zoology", DurStr(<<Num(2), Hr>>), QWord)>>, 1),
      Without(Bundle(<<GoodEntry(Ymd(2025, 2, 28))>>, 2), "profile"),
      Without(Bundle(<<GoodEntry(Ymd(2025, 2, 28))>>, 2), "study_data"),
      [shape |-> "array", keys |-> required_keys, study_data |-> Missing,
       weekly_targets |-> Missing, daily_schedule |-> Missing,
       profile |-> Missing] }

\* A mutant of HasRequiredKeys: one of the keys is enough.
HasSomeRequiredKey(bundle) == \E key \in required_keys : key \in bundle.keys

\* all(key in imported_data for key in required_keys)
HasRequiredKeys(bundle) == \A key \in required_keys : key \in bundle.keys

\* "Confirm Import" on the uploaded file `bundle`.  The button is there
\* when the keys are; imported_data["study_data"] on an array raises before
\* anything is assigned.
ConfirmImport(bundle) ==
    /\ IF HasRequiredKeys(bundle) /\ bundle.shape = "object"
       THEN /\ data' = bundle.study_data
            /\ session' = [key \in other_keys |-> bundle[key]]
            /\ studyFile' = FileOf(data')
            /\ sessionFiles' = [key \in other_keys |-> session'[key]]
       ELSE UNCHANGED <<data, studyFile, session, sessionFiles>>
    /\ stats' = NoResult
    /\ analyzed' = NoResult
    /\ UNCHANGED <<storeVars, authVars, calcVars, notifyVars>>

ImportData == \E bundle \in ImportBundles : ConfirmImport(bundle)

\* "Clear All Data" with DELETE typed.
ClearAllData ==
    /\ data' = <<>>
    /\ studyFile' = NoFile
    /\ stats' = NoResult
    /\ analyzed' = NoResult
    /\ UNCHANGED <<session, sessionFiles>>
    /\ UNCHANGED <<storeVars, authVars, calcVars, notifyVars>>

\* sorted(df['Date'].dt.date.unique()), as day ordinals.
DateOrdinals(log) == {Ordinal(log[i].Date) : i \in DOMAIN log}

RECURSIVE Sorted(_)
Sorted(S) ==
    IF S = {} THEN <<>>
    ELSE LET least == CHOOSE x \in S : \A y \in S : x <= y
         IN  <<least>> \o Sorted(S \ {least})

\* float(x.split()[0]) if isinstance(x, str) and x else 0   (Neet.py)
StudyHours(e) ==
    IF e.Duration.kind = "str" /\ e.Duration.tokens # <<>>
    THEN e.Duration.tokens[1].v ELSE 0

\* int(x) if pd.notna(x) and x != '' else 0
QuestionsOf(e) == IF e.Questions.kind = "int" THEN e.Questions.v ELSE 0

\* df['Study Hours'].sum()
RECURSIVE TotalHours(_, _)
TotalHours(log, i) ==
    IF i > Len(log) THEN 0 ELSE StudyHours(log[i]) + TotalHours(log, i + 1)

\* df['Questions'].sum()
RECURSIVE TotalQuestions(_, _)
TotalQuestions(log, i) ==
    IF i > Len(log) THEN 0 ELSE QuestionsOf(log[i]) + TotalQuestions(log, i + 1)

\* The conversions of calculate_stats raise: pd.to_datetime on a date that
\* does not parse, float() on a first token that is no number, int() on
\* questions that are no number.
StatsRaises(log) ==
    \E i \in DOMAIN log :
        \/ ~DateParses(log[i].Date)
        \/ (log[i].Duration.kind = "str" /\ log[i].Duration.tokens # <<>>
            /\ log[i].Duration.tokens[1].t # "num")
        \/ log[i].Questions.kind = "word"

\* A mutant of StreakBackward: the streak starts at 0.
RECURSIVE StreakBackwardFromZero(_, _, _)
StreakBackwardFromZero(dates, i, streak) ==
    IF i < 2 THEN streak - 1
    ELSE IF dates[i] - dates[i - 1] = 1
         THEN StreakBackwardFromZero(dates, i - 1, streak + 1)
         ELSE streak - 1

\* A mutant of StreakBackward: the walk starts at the earliest date.
RECURSIVE StreakBackwardWalksForward(_, _, _)
StreakBackwardWalksForward(dates, i, streak) ==
    LET j == Len(dates) - i + 1
    IN  IF j > Len(dates) - 1 THEN streak
        ELSE IF dates[j + 1] - dates[j] = 1
             THEN StreakBackwardWalksForward(dates, i - 1, streak + 1)
             ELSE streak

\* for i in range(len(dates)-1, 0, -1):
\*     if (dates[i] - dates[i-1]).days == 1: streak += 1  else: break
RECURSIVE StreakBackward(_, _, _)
StreakBackward(dates, i, streak) ==
    IF i < 2 THEN streak
    ELSE IF dates[i] - dates[i - 1] = 1
         THEN StreakBackward(dates, i - 1, streak + 1)
         ELSE streak

\* calculate_stats() of Neet.py.
calculate_stats(log) ==
    IF log = <<>>
    THEN [kind |-> "ok", raised |-> FALSE, streak |-> 0,
          total_hours |-> 0, total_questions |-> 0]
    ELSE IF StatsRaises(log)
    THEN [kind |-> "ok", raised |-> TRUE, streak |-> 0,
          total_hours |-> 0, total_questions |-> 0]
    ELSE LET dates == Sorted(DateOrdinals(log))
         IN  [kind |-> "ok", raised |-> FALSE,
              streak |-> StreakBackward(dates, Len(dates), 1),
              total_hours |-> TotalHours(log, 1),
              total_questions |-> TotalQuestions(log, 1)]

\* The conversions show_dashboard makes itself before it calls
\* calculate_stats(): the same pd.to_datetime, float() and int().
DashboardRaises(log) ==
    \E i \in DOMAIN log :
        \/ ~DateParses(log[i].Date)
        \/ (log[i].Duration.kind = "str" /\ log[i].Duration.tokens # <<>>
            /\ log[i].Duration.tokens[1].t # "num")
        \/ log[i].Questions.kind = "word"

\* The dashboard is rendered: show_dashboard returns at once on an empty
\* log, shows an error when one of its conversions raises, and calls
\* calculate_stats() otherwise.
ShowDashboard ==
    /\ stats' = IF data = <<>> THEN NoResult
                ELSE IF DashboardRaises(data) THEN [NoResult EXCEPT !.kind = "error"]
                ELSE calculate_stats(data)
    /\ analyzed' = NoResult
    /\ UNCHANGED <<data, studyFile, session, sessionFiles>>
    /\ UNCHANGED <<storeVars, authVars, calcVars, notifyVars>>

\* StudyAnalyzer.__init__ and _preprocess_data raise: pd.to_datetime on a
\* date that does not parse, x.split()[0] on "", float() on a first token
\* that is no number, int() on questions that are no number.
AnalyzerRaises(log) ==
    \E i \in DOMAIN log :
        \/ ~DateParses(log[i].Date)
        \/ (log[i].Duration.kind = "str"
            /\ (log[i].Duration.tokens = <<>> \/ log[i].Duration.tokens[1].t # "num"))
        \/ log[i].Questions.kind = "word"

\* for i in range(len(dates)-1):
\*     if (dates[i+1] - dates[i]).days == 1: current_streak += 1  else: break
RECURSIVE StreakForward(_, _, _)
StreakForward(dates, i, current_streak) ==
    IF i > Len(dates) - 1 THEN current_streak
    ELSE IF dates[i + 1] - dates[i] = 1
         THEN StreakForward(dates, i + 1, current_streak + 1)
         ELSE current_streak

\* StudyAnalyzer._calculate_streak on the frame built from `log`.
calculate_streak(log) ==
    IF log = <<>> THEN 0
    ELSE StreakForward(Sorted(DateOrdinals(log)), 1, 1)

\* StudyAnalyzer(st.session_state.data)._calculate_streak()
AnalyzerStreak ==
    /\ analyzed' = IF data # <<>> /\ AnalyzerRaises(data)
                   THEN [NoResult EXCEPT !.kind = "ok", !.raised = TRUE]
                   ELSE [NoResult EXCEPT !.kind = "ok",
                                         !.streak = calculate_streak(data)]
    /\ stats' = NoResult
    /\ UNCHANGED <<data, studyFile, session, sessionFiles>>
    /\ UNCHANGED <<storeVars, authVars, calcVars, notifyVars>>

AppInit ==
    /\ data = <<>>
    /\ studyFile = NoFile
    /\ session = [key \in other_keys |-> Unset]
    /\ sessionFiles = [key \in other_keys |-> NoJson]
    /\ stats = NoResult
    /\ analyzed = NoResult

AppNext ==
    \/ SaveStudyEntry
    \/ ImportData
    \/ ClearAllData
    \/ ShowDashboard
    \/ AnalyzerStreak

\* The application is started on the study-log file an earlier session
\* left: none, or one with an entry.
StartupLogs == {<<>>, <<GoodEntry(Ymd(2025, 2, 25))>>}
LogStartup ==
    /\ data \in StartupLogs
    /\ studyFile = IF data = <<>> THEN NoFile ELSE FileOf(data)
    /\ session = [key \in other_keys |-> Unset]
    /\ sessionFiles = [key \in other_keys |-> NoJson]
    /\ stats = NoResult
    /\ analyzed = NoResult

\* "Save Study Entry" is the only button pressed.
LogNext ==
    \/ SaveStudyEntry

\* The buttons that change the collections of the session and their files.
SessionNext ==
    \/ SaveStudyEntry
    \/ ImportData
    \/ ClearAllData

(***************************************************************************)
(* auth_manager.py                                                         *)
(***************************************************************************)

\* Bounds: clock advances, and tokens issued.
MaxTicks == 1
MaxTokens == 1

Usernames == {"alice"}
Passwords == {"pw1", "pw2"}

\* secrets.token_urlsafe(8), the temporary password of reset_password.
temp_password == "tmp"
Emails == {"a@x", "b@x"}

\* The steps by which the clock advances, in minutes.
TimeSteps == {15, 1440}

\* Time zones of the machine: New York, UTC, India.
UtcOffsets == {-300, 0, 330}

\* None, for last_login and locked_until.
NoTime == -1

\* "Lock account after 5 failed attempts", for timedelta(minutes=30);
\* tokens expire after timedelta(days=1).
MAX_FAILED_ATTEMPTS == 5
LOCK_MINUTES == 30
TOKEN_MINUTES == 1440

\* hashlib.sha256(password.encode()).hexdigest(): injective on Passwords.
_hash_password(password) == <<"sha256", password>>

NoAccount == [exists |-> FALSE, password |-> <<"sha256", "">>, email |-> "",
              last_login |-> NoTime, failed_attempts |-> 0, locked_until |-> NoTime]

\* The record create_user stores (created_at, which nothing reads, is left out).
NewAccount(password, email) ==
    [exists |-> TRUE, password |-> _hash_password(password), email |-> email,
     last_login |-> NoTime, failed_attempts |-> 0, locked_until |-> NoTime]

\* The content of auth.json: no file, a complete dump of an account map, or
\* the truncated text a failed dump leaves.
NoAuthFile == [kind |-> "absent", map |-> [u \in Usernames |-> NoAccount]]
DumpOf(map) == [kind |-> "full", map |-> map]
PartialDump == [kind |-> "partial", map |-> [u \in Usernames |-> NoAccount]]

\* The disk auth.json lies on: every write succeeds ("sound"); the file
\* cannot be opened for writing ("read_only"); a write may fail after the
\* file was opened and truncated ("flaky").
Disks == {"sound", "read_only", "flaky"}

\* _save_users(): the outcomes <<content of auth.json, value returned>> of
\* dumping the map. When open(auth_file, 'w') raises the file stays as it
\* was, when json.dump raises it stays truncated; both return False.
_save_users(map) ==
    IF disk = "read_only" THEN {<<authFile, FALSE>>}
    ELSE {<<DumpOf(map), TRUE>>}
         \cup (IF disk = "flaky" THEN {<<PartialDump, FALSE>>} ELSE {})


\* The keys tokens are signed with: self.secret_key, and any other key.
secret_key == "secret.key"
OtherKey == "other"

\* The HS256 signature: it binds the key and the payload.
Sign(key, username, exp) == <<key, username, exp>>

NoToken == [kind |-> "none", username |-> "", exp |-> 0, sig |-> Sign("", "", 0)]

\* jwt.encode({"username": u, "exp": <naive local datetime>}, key, "HS256"):
\* PyJWT turns the naive datetime into a timestamp as if it were UTC.
jwt_encode(username, exp, key) ==
    [kind |-> "jwt", username |-> username, exp |-> exp,
     sig |-> Sign(key, username, exp)]

\* jwt.decode(token, key, algorithms=["HS256"]): "ok", or the exception.
\* The exp claim is compared with the current UTC time.
jwt_decode(token, key, utcnow) ==
    IF token.kind # "jwt" THEN "InvalidTokenError"
    ELSE IF token.sig # Sign(key, token.username, token.exp) THEN "InvalidTokenError"
    ELSE IF token.exp <= utcnow THEN "ExpiredSignatureError"
    ELSE "ok"

\* datetime.now(tz=timezone.utc), which jwt.decode reads.
UtcNow == clock - utcOffset

\* user["locked_until"] and fromisoformat(user["locked_until"]) > now()
IsLocked(user, now) ==
    user.locked_until # NoTime /\ user.locked_until > now

\* A mutant of TooManyFailures: one attempt more is allowed.
TooManyFailuresOffByOne(failed_attempts) == failed_attempts > MAX_FAILED_ATTEMPTS

\* if user["failed_attempts"] >= 5
TooManyFailures(failed_attempts) == failed_attempts >= MAX_FAILED_ATTEMPTS

\* A mutant of OnSuccess: failed_attempts is not reset.
OnSuccessKeepsFailures(user, now) == [user EXCEPT !.last_login = now]

\* user["failed_attempts"] = 0; user["last_login"] = now
OnSuccess(user, now) == [user EXCEPT !.failed_attempts = 0, !.last_login = now]

\* The messages authenticate_user returns.
InvalidCredentials == "Invalid username or password"
AccountIsLocked == "Account is locked. Please try again later."
AccountLockedNow ==
    "Account locked due to too many failed attempts. Please try again in 30 minutes."

\* A mutant of FailureMessage: a wrong password is reported as such.
FailureMessageTelling(locking) ==
    IF locking THEN AccountLockedNow ELSE "Invalid password"

\* The message for a wrong password: the lockout message when this attempt
\* locks the account, the one for an unknown username otherwise.
FailureMessage(locking) ==
    IF locking THEN AccountLockedNow ELSE InvalidCredentials

NoAuthResult ==
    [op |-> "none", user |-> "", ok |-> FALSE, msg |-> "", token |-> NoToken,
     pwdCorrect |-> FALSE, run |-> 0, name |-> "", emailMatches |-> FALSE]

AuthInit ==
    /\ users = [u \in Usernames |-> NoAccount]
    /\ authFile = NoAuthFile
    /\ clock = 0
    /\ utcOffset \in UtcOffsets
    /\ ticks = 0
    /\ issued = {}
    /\ authResult = NoAuthResult
    /\ activeRun = [u \in Usernames |-> 0]
    /\ trailingFails = [u \in Usernames |-> 0]
    /\ disk \in Disks

\* Time passes.
Advance ==
    /\ ticks < MaxTicks
    /\ \E dt \in TimeSteps : clock' = clock + dt
    /\ ticks' = ticks + 1
    /\ authResult' = NoAuthResult
    /\ UNCHANGED <<users, authFile, utcOffset, issued, activeRun, trailingFails, disk>>
    /\ UNCHANGED <<storeVars, appVars, calcVars, notifyVars>>

create_user ==
    \E username \in Usernames, password \in Passwords, email \in Emails :
        /\ IF users[username].exists
           THEN /\ authResult' = [NoAuthResult EXCEPT !.op = "create_user",
                                     !.user = username, !.msg = "Username already exists"]
                /\ UNCHANGED <<users, authFile, activeRun, trailingFails>>
           ELSE /\ users' = [users EXCEPT ![username] = NewAccount(password, email)]
                /\ \E out \in _save_users(users') :
                       /\ authFile' = out[1]
                       /\ authResult' = [NoAuthResult EXCEPT !.op = "create_user",
                              !.user = username, !.ok = out[2],
                              !.msg = IF out[2] THEN "User created successfully"
                                                ELSE "Error saving user data"]
                /\ activeRun' = [activeRun EXCEPT ![username] = 0]
                /\ trailingFails' = [trailingFails EXCEPT ![username] = 0]
        /\ UNCHANGED <<clock, utcOffset, ticks, issued, disk>>
        /\ UNCHANGED <<storeVars, appVars, calcVars, notifyVars>>

authenticate_user ==
    \E username \in Usernames, password \in Passwords \cup {temp_password} :
        LET user == users[username]
            right == user.password = _hash_password(password)
            res == [NoAuthResult EXCEPT !.op = "authenticate_user", !.user = username,
                                        !.pwdCorrect = user.exists /\ right]
        IN
        /\ IF ~user.exists
           THEN \* return False, "Invalid username or password", None
                /\ authResult' = [res EXCEPT !.msg = InvalidCredentials]
                /\ UNCHANGED <<users, authFile, issued, activeRun, trailingFails>>
           ELSE IF IsLocked(user, clock)
           THEN \* return False, "Account is locked. Please try again later.", None
                /\ authResult' = [res EXCEPT !.msg = AccountIsLocked]
                /\ UNCHANGED <<users, authFile, issued, activeRun, trailingFails>>
           ELSE IF ~right
           THEN LET failed == user.failed_attempts + 1
                    run == activeRun[username] + 1
                IN  /\ users' = [users EXCEPT ![username] =
                           IF TooManyFailures(failed)
                           THEN [user EXCEPT !.failed_attempts = failed,
                                             !.locked_until = clock + LOCK_MINUTES]
                           ELSE [user EXCEPT !.failed_attempts = failed]]
                    /\ \E out \in _save_users(users') :
                           /\ authFile' = out[1]
                    /\ authResult' = [res EXCEPT !.run = run, !.msg =
                           FailureMessage(TooManyFailures(failed))]
                    /\ activeRun' = [activeRun EXCEPT ![username] =
                                       IF TooManyFailures(failed) THEN 0 ELSE run]
                    /\ trailingFails' = [trailingFails EXCEPT ![username] = @ + 1]
                    /\ UNCHANGED issued
           ELSE LET token == jwt_encode(username, clock + TOKEN_MINUTES, secret_key)
                IN  /\ Cardinality(issued \cup {<<token, clock>>}) <= MaxTokens
                    /\ users' = [users EXCEPT ![username] = OnSuccess(user, clock)]
                    /\ \E out \in _save_users(users') :
                           /\ authFile' = out[1]
                    /\ issued' = issued \cup {<<token, clock>>}
                    /\ authResult' = [res EXCEPT !.ok = TRUE, !.token = token,
                                                 !.msg = "Authentication successful"]
                        /\ activeRun' = [activeRun EXCEPT ![username] = 0]
                    /\ trailingFails' = [trailingFails EXCEPT ![username] = 0]
        /\ UNCHANGED <<clock, utcOffset, ticks, disk>>
        /\ UNCHANGED <<storeVars, appVars, calcVars, notifyVars>>

\* The tokens a caller can present: the issued ones, an issued one whose
\* expiry was edited, one signed with another key, and a string that is no token.
PresentedTokens ==
    {it[1] : it \in issued}
    \cup {[it[1] EXCEPT !.exp = @ + TOKEN_MINUTES] : it \in issued}
    \cup {jwt_encode(u, clock + TOKEN_MINUTES, OtherKey) : u \in Usernames}
    \cup {[NoToken EXCEPT !.kind = "garbage"]}

\* username in self.users
KnownUser(username) == users[username].exists

validate_token ==
    \E token \in PresentedTokens :
        LET res == [NoAuthResult EXCEPT !.op = "validate_token", !.token = token]
        IN
        /\ IF jwt_decode(token, secret_key, UtcNow) # "ok"
           THEN \* except jwt.ExpiredSignatureError / jwt.InvalidTokenError
                authResult' = res
           ELSE IF ~KnownUser(token.username)
           THEN authResult' = res
           ELSE authResult' = [res EXCEPT !.ok = TRUE, !.name = token.username]
        /\ UNCHANGED <<users, authFile, clock, utcOffset, ticks, issued,
                       activeRun, trailingFails, disk>>
        /\ UNCHANGED <<storeVars, appVars, calcVars, notifyVars>>

\* A mutant of WrongOldPassword: the current password is not asked for.
WrongOldPasswordNever(user, old_password) == FALSE

\* user["password"] != self._hash_password(old_password)
WrongOldPassword(user, old_password) ==
    user.password # _hash_password(old_password)

change_password ==
    \E username \in Usernames, old_password \in Passwords, new_password \in Passwords :
        LET user == users[username]
            res == [NoAuthResult EXCEPT !.op = "change_password", !.user = username,
                       !.pwdCorrect = user.exists
                                      /\ user.password = _hash_password(old_password)]
        IN
        /\ IF ~user.exists
           THEN /\ authResult' = [res EXCEPT !.msg = "User not found"]
                /\ UNCHANGED <<users, authFile>>
           ELSE IF WrongOldPassword(user, old_password)
           THEN /\ authResult' = [res EXCEPT !.msg = "Invalid current password"]
                /\ UNCHANGED <<users, authFile>>
           ELSE /\ users' = [users EXCEPT ![username].password =
                                _hash_password(new_password)]
                /\ \E out \in _save_users(users') :
                       /\ authFile' = out[1]
                       /\ authResult' = [res EXCEPT !.ok = out[2], !.msg =
                              IF out[2] THEN "Password changed successfully"
                                        ELSE "Error saving password"]
        /\ UNCHANGED <<clock, utcOffset, ticks, issued, activeRun, trailingFails, disk>>
        /\ UNCHANGED <<storeVars, appVars, calcVars, notifyVars>>

reset_password ==
    \E username \in Usernames, email \in Emails :
        LET user == users[username]
            res == [NoAuthResult EXCEPT !.op = "reset_password", !.user = username,
                       !.emailMatches = user.exists /\ user.email = email]
        IN
        /\ IF ~user.exists
           THEN /\ authResult' = [res EXCEPT !.msg = "User not found"]
                /\ UNCHANGED <<users, authFile>>
           ELSE IF user.email # email
           THEN /\ authResult' = [res EXCEPT !.msg = "Invalid email address"]
                /\ UNCHANGED <<users, authFile>>
           ELSE /\ users' = [users EXCEPT ![username].password =
                                _hash_password(temp_password)]
                /\ \E out \in _save_users(users') :
                       /\ authFile' = out[1]
                       /\ authResult' = [res EXCEPT !.ok = out[2], !.msg =
                              IF out[2] THEN temp_password
                                        ELSE "Error resetting password"]
        /\ UNCHANGED <<clock, utcOffset, ticks, issued, activeRun, trailingFails, disk>>
        /\ UNCHANGED <<storeVars, appVars, calcVars, notifyVars>>

update_user_profile ==
    \E username \in Usernames, email \in Emails :
        LET res == [NoAuthResult EXCEPT !.op = "update_user_profile", !.user = username]
        IN
        /\ IF ~users[username].exists
           THEN /\ authResult' = [res EXCEPT !.msg = "User not found"]
                /\ UNCHANGED <<users, authFile>>
           ELSE /\ users' = [users EXCEPT ![username].email = email]
                /\ \E out \in _save_users(users') :
                       /\ authFile' = out[1]
                       /\ authResult' = [res EXCEPT !.ok = out[2], !.msg =
                              IF out[2] THEN "Profile updated successfully"
                                        ELSE "Error updating profile"]
        /\ UNCHANGED <<clock, utcOffset, ticks, issued, activeRun, trailingFails, disk>>
        /\ UNCHANGED <<storeVars, appVars, calcVars, notifyVars>>

delete_user ==
    \E username \in Usernames :
        LET res == [NoAuthResult EXCEPT !.op = "delete_user", !.user = username]
        IN
        /\ IF ~users[username].exists
           THEN /\ authResult' = [res EXCEPT !.msg = "User not found"]
                /\ UNCHANGED <<users, authFile>>
           ELSE /\ users' = [users EXCEPT ![username] = NoAccount]
                /\ \E out \in _save_users(users') :
                       /\ authFile' = out[1]
                       /\ authResult' = [res EXCEPT !.ok = out[2], !.msg =
                              IF out[2] THEN "User deleted successfully"
                                        ELSE "Error deleting user"]
        /\ UNCHANGED <<clock, utcOffset, ticks, issued, activeRun, trailingFails, disk>>
        /\ UNCHANGED <<storeVars, appVars, calcVars, notifyVars>>

AuthNext ==
    \/ Advance
    \/ create_user
    \/ authenticate_user
    \/ validate_token
    \/ change_password
    \/ reset_password
    \/ update_user_profile
    \/ delete_user

(***************************************************************************)
(* notification_manager.py                                                 *)
(***************************************************************************)

\* Bound on the notifications accepted by schedule_notification.
MaxScheduled == 2

\* The threads start_notification_service can create, in the order it
\* creates them, and the times of the clock (in polling intervals), which
\* are also the times a notification is scheduled for.
LoopThreads == {"t1", "t2"}
ScheduleTimes == {0, 1}
LastTime == 1

\* A notification, by its scheduled_time: list.remove() compares by value.
Notification(at) == [scheduled_time |-> at]

\* A thread that has not been created.  A thread is at the test of the
\* while loop ("check"), at the call of _process_notification_queue
\* ("begin"), at element i of the copy it iterates over ("iterate"), at the
\* remove() of that element ("remove"), in time.sleep ("sleep"), returned
\* from the loop ("done") or ended by an exception ("crashed").
\* lastCheck is what its last test of the flag read, begun the flag when its
\* current pass read the time.
NoLoop == [pc |-> "unborn", current_time |-> 0, copy |-> <<>>, i |-> 0,
           lastCheck |-> "none", begun |-> "none"]

NotifyInit ==
    /\ notification_queue = <<>>
    /\ is_running = FALSE
    /\ loops = [t \in LoopThreads |-> NoLoop]
    /\ ntime = 0
    /\ accepted = EmptyBag
    /\ sent = EmptyBag

\* The clock moves on.
Tick ==
    /\ ntime < LastTime
    /\ ntime' = ntime + 1
    /\ UNCHANGED <<notification_queue, is_running, loops, accepted, sent>>
    /\ UNCHANGED <<storeVars, appVars, authVars, calcVars>>

\* self.notification_queue.append(notification)
Enqueue(scheduled_time) ==
    /\ notification_queue' = Append(notification_queue, Notification(scheduled_time))
    /\ accepted' = accepted (+) SetToBag({scheduled_time})

\* schedule_notification: the notification is appended to the queue.
schedule_notification ==
    /\ BagCardinality(accepted) < MaxScheduled
    /\ \E at \in ScheduleTimes : Enqueue(at)
    /\ UNCHANGED <<is_running, loops, ntime, sent>>
    /\ UNCHANGED <<storeVars, appVars, authVars, calcVars>>

Unborn == {t \in LoopThreads : loops[t].pc = "unborn"}
NextThread == IF "t1" \in Unborn THEN "t1" ELSE "t2"

\* start_notification_service: when the flag is down it is raised and a
\* thread is started on _notification_loop; when it is up nothing happens.
start_notification_service ==
    /\ ~is_running => Unborn # {}
    /\ IF ~is_running
       THEN /\ is_running' = TRUE
            /\ loops' = [loops EXCEPT ![NextThread] = [NoLoop EXCEPT !.pc = "check"]]
       ELSE UNCHANGED <<is_running, loops>>
    /\ UNCHANGED <<notification_queue, ntime, accepted, sent>>
    /\ UNCHANGED <<storeVars, appVars, authVars, calcVars>>

\* stop_notification_service
stop_notification_service ==
    /\ is_running' = FALSE
    /\ UNCHANGED <<notification_queue, loops, ntime, accepted, sent>>
    /\ UNCHANGED <<storeVars, appVars, authVars, calcVars>>

\* A mutant of LoopContinues: the loop does not look at the flag.
LoopContinuesAnyway(flag) == TRUE

\* while self.is_running
LoopContinues(flag) == flag

\* The test of the while loop.
LoopCheck(t) ==
    /\ loops[t].pc = "check"
    /\ loops' = [loops EXCEPT
                   ![t].pc = IF LoopContinues(is_running) THEN "begin" ELSE "done",
                   ![t].lastCheck = IF is_running THEN "running" ELSE "stopped"]
    /\ UNCHANGED <<notification_queue, is_running, ntime, accepted, sent>>
    /\ UNCHANGED <<storeVars, appVars, authVars, calcVars>>

\* _process_notification_queue is entered: current_time is read and the
\* queue is copied.
PassBegin(t) ==
    /\ loops[t].pc = "begin"
    /\ loops' = [loops EXCEPT ![t].pc = "iterate",
                              ![t].current_time = ntime,
                              ![t].copy = notification_queue,
                              ![t].i = 1,
                              ![t].begun = IF is_running THEN "running" ELSE "stopped"]
    /\ UNCHANGED <<notification_queue, is_running, ntime, accepted, sent>>
    /\ UNCHANGED <<storeVars, appVars, authVars, calcVars>>

\* A mutant of IsDue: every notification is due.
IsDueAlways(notification, current_time) == TRUE

\* notification['scheduled_time'] <= current_time
IsDue(notification, current_time) == notification.scheduled_time <= current_time

\* One element of the copy: a due one is handed to _send_notification,
\* which returns True or, on any exception, False; after the last element
\* the pass is over and the thread sleeps.
PassStep(t) ==
    /\ loops[t].pc = "iterate"
    /\ LET loop == loops[t]
       IN  IF loop.i > Len(loop.copy)
           THEN /\ loops' = [loops EXCEPT ![t] = [NoLoop EXCEPT
                                 !.pc = "sleep", !.lastCheck = loop.lastCheck]]
                /\ UNCHANGED sent
           ELSE IF IsDue(loop.copy[loop.i], loop.current_time)
           THEN /\ \E ok \in BOOLEAN :
                       sent' = sent (+) SetToBag({[notification |-> loop.copy[loop.i],
                                                   current_time |-> loop.current_time,
                                                   ok |-> ok,
                                                   check |-> loop.lastCheck,
                                                   begun |-> loop.begun]})
                /\ loops' = [loops EXCEPT ![t].pc = "remove"]
           ELSE /\ loops' = [loops EXCEPT ![t].i = @ + 1]
                /\ UNCHANGED sent
    /\ UNCHANGED <<notification_queue, is_running, ntime, accepted>>
    /\ UNCHANGED <<storeVars, appVars, authVars, calcVars>>

Occurs(queue, notification) == \E k \in DOMAIN queue : queue[k] = notification

\* A mutant of RemoveFirst: every element equal to the notification goes.
RemoveEvery(queue, notification) ==
    SelectSeq(queue, LAMBDA n : n # notification)

\* list.remove(x): the first element equal to x is removed.
RemoveFirst(queue, notification) ==
    LET k == CHOOSE j \in DOMAIN queue :
                 /\ queue[j] = notification
                 /\ \A h \in 1..(j - 1) : queue[h] # notification
    IN  SubSeq(queue, 1, k - 1) \o SubSeq(queue, k + 1, Len(queue))

\* self.notification_queue.remove(notification); a notification that is no
\* longer in the queue makes remove() raise ValueError, which ends the
\* thread.
Remove(t) ==
    /\ loops[t].pc = "remove"
    /\ LET loop == loops[t]
       IN  IF Occurs(notification_queue, loop.copy[loop.i])
           THEN /\ notification_queue' =
                       RemoveFirst(notification_queue, loop.copy[loop.i])
                /\ loops' = [loops EXCEPT ![t].pc = "iterate", ![t].i = @ + 1]
           ELSE /\ loops' = [loops EXCEPT ![t] = [NoLoop EXCEPT
                                 !.pc = "crashed", !.lastCheck = loop.lastCheck]]
                /\ UNCHANGED notification_queue
    /\ UNCHANGED <<is_running, ntime, accepted, sent>>
    /\ UNCHANGED <<storeVars, appVars, authVars, calcVars>>

\* time.sleep(60) returns.
Wake(t) ==
    /\ loops[t].pc = "sleep"
    /\ loops' = [loops EXCEPT ![t].pc = "check"]
    /\ UNCHANGED <<notification_queue, is_running, ntime, accepted, sent>>
    /\ UNCHANGED <<storeVars, appVars, authVars, calcVars>>

\* A step of a thread in _notification_loop.
LoopStep ==
    \E t \in LoopThreads :
        \/ LoopCheck(t)
        \/ PassBegin(t)
        \/ PassStep(t)
        \/ Remove(t)
        \/ Wake(t)

NotifyNext ==
    \/ start_notification_service
    \/ stop_notification_service
    \/ schedule_notification
    \/ Tick
    \/ LoopStep

\* The service is started and never stopped.
PollerNext ==
    \/ start_notification_service
    \/ schedule_notification
    \/ Tick
    \/ LoopStep

(***************************************************************************)
(* Functions called on their own                                           *)
(***************************************************************************)

\* Each of these functions is called once, on a fresh input.
NoCall == [fn |-> "none", arg |-> <<>>, res |-> <<>>]

CalcInit == called = NoCall

\* The candidate records handed to validate_study_entry.
CandidateDates ==
    {Ymd(2025, 2, 20), Ymd(2025, 2, 30), Ymd(2024, 2, 29), Ymd(2025, 2, 29),
     Ymd(2025, 13, 1), TextDate, NonStrDate}
CandidateSubjects == valid_subjects \cup {"Math", "physics"}
CandidateDurations ==
    {DurStr(<<Num(h), Hr>>) : h \in {-1, 0, 4, 2 * 24, 2 * 24 + 1}}
    \cup {DurStr(<<Num(4)>>), DurStr(<<Num(4), Word>>), DurStr(<<Word, Hr>>),
          DurStr(<<NaN, Hr>>), DurStr(<<>>), DurNonStr}
CandidateMissing == {{}} \cup {{f} : f \in required_fields}
Candidates ==
    {[Entry(dt, subj, dur, QBlank) EXCEPT !.missing = miss] :
        dt \in CandidateDates, subj \in CandidateSubjects,
        dur \in CandidateDurations, miss \in CandidateMissing}

\* DataManager.validate_study_entry(entry) is called.
ValidateEntry ==
    /\ called.fn = NoCall.fn
    /\ \E entry \in Candidates :
           called' = [fn |-> "validate_study_entry", arg |-> entry,
                      res |-> validate_study_entry(entry)]
    /\ UNCHANGED <<storeVars, appVars, authVars, notifyVars>>

\* The weekly totals and targets of one subject on the Progress Tracking
\* tab.  Hours are in half hours.  The form gives totals that are not
\* negative; an imported log, which nothing validates, can hold "-3 hr".
WeekHours == {-6, 0, 7, 10, 29, 40}
WeekQuestions == {0, 5, 150}
TargetHours == {0, 7, 10, 50}
TargetQuestions == {0, 10, 100}

RECURSIVE OddPart(_)
OddPart(n) == IF n % 2 = 0 THEN OddPart(n \div 2) ELSE n

RECURSIVE Gcd(_, _)
Gcd(a, b) == IF b = 0 THEN a ELSE Gcd(b, a % b)

\* The values int(current / target * 100) can take, for current = num / den
\* and target > 0.  int() truncates towards zero.  The float quotient is
\* exact when current / target is a dyadic fraction; otherwise it is
\* rounded, and a percentage that is a whole number n may come out as n or
\* as n - 1.
IntPercent(num, den, target) ==
    LET a == IF num < 0 THEN -num ELSE num
        q == (100 * a) \div (den * target)
        whole == (100 * a) % (den * target) = 0
        dyadic == OddPart((den * target) \div Gcd(a, den * target)) = 1
    IN  IF num < 0 THEN {-q}
        ELSE IF whole /\ ~dyadic /\ q > 0 THEN {q, q - 1}
        ELSE {q}

Min(a, b) == IF a < b THEN a ELSE b

\* min(100, int((current / target * 100) if target > 0 else 0))
Percents(num, den, target) ==
    IF target > 0 THEN {Min(100, p) : p \in IntPercent(num, den, target)}
    ELSE {0}

\* The progress card of one subject is computed.
Progress ==
    /\ called.fn = NoCall.fn
    /\ \E hours \in WeekHours, questions \in WeekQuestions,
          target_hours \in TargetHours, target_questions \in TargetQuestions :
           \E hp \in Percents(hours, 2, target_hours),
              qp \in Percents(questions, 1, target_questions) :
               called' = [fn |-> "progress",
                          arg |-> [hours |-> hours, questions |-> questions,
                                   target_hours |-> target_hours,
                                   target_questions |-> target_questions],
                          res |-> [hours_percent |-> hp, questions_percent |-> qp]]
    /\ UNCHANGED <<storeVars, appVars, authVars, notifyVars>>

\* Bound: the days of the period in which the histories handed to the
\* analyzer have their entries.
PeriodDays == 10

\* The first day of that period, and the histories, each by the days (as
\* ordinals) on which it has entries.
PeriodStart == Ordinal(Ymd(2025, 2, 24))
Period == PeriodStart..(PeriodStart + PeriodDays - 1)
Histories == SUBSET Period

SetMax(S) == CHOOSE x \in S : \A y \in S : y <= x
SetMin(S) == CHOOSE x \in S : \A y \in S : x <= y

\* round(100 * num / den, 2), in hundredths (den > 0).  The quotient is
\* half way between two hundredths only when 32 divides den.
RoundedPercent(num, den) == (2 * 10000 * num + den) \div (2 * den)

\* A mutant of DateRange: the last day is not counted.
DateRangeExclusive(dates) == SetMax(dates) - SetMin(dates)

\* (self.data['Date'].max() - self.data['Date'].min()).days + 1
DateRange(dates) == SetMax(dates) - SetMin(dates) + 1

\* StudyAnalyzer._calculate_consistency_score on a frame whose Date column
\* has the distinct days `dates`; the score is in hundredths.
_calculate_consistency_score(dates) ==
    IF dates = {} THEN 0
    ELSE IF DateRange(dates) > 0
         THEN RoundedPercent(Cardinality(dates), DateRange(dates))
         ELSE 0

ConsistencyScore ==
    /\ called.fn = NoCall.fn
    /\ \E dates \in Histories :
           called' = [fn |-> "_calculate_consistency_score", arg |-> dates,
                      res |-> _calculate_consistency_score(dates)]
    /\ UNCHANGED <<storeVars, appVars, authVars, notifyVars>>

\* date.weekday(): Monday is 0.
Weekday(day) == (day - 1) % 7

\* The moments 'now' is drawn from: a day of the week that starts on
\* PeriodStart (a Monday) and a minute of that day.
NowDays == PeriodStart..(PeriodStart + 6)
NowMinutes == {0, 570, 1439}
Nows == [day : NowDays, minute : NowMinutes]

\* The dates of a log's entries: the days of that week, the Sunday before
\* and the Monday after; a log has at most MaxWeekEntries distinct dates.
MaxWeekEntries == 2
WeekEntryDays == (PeriodStart - 1)..(PeriodStart + 7)
WeekLogs == {D \in SUBSET WeekEntryDays : Cardinality(D) <= MaxWeekEntries}

\* A datetime as minutes; pd.to_datetime of a 'YYYY-MM-DD' string is the
\* midnight that starts the day.
MinutesPerDay == 1440
Timestamp(day, minute) == day * MinutesPerDay + minute
Midnight(day) == Timestamp(day, 0)

\* start_of_week = today - timedelta(days=today.weekday()) and
\* end_of_week = start_of_week + timedelta(days=6), both with the time of
\* day of today.
start_of_week(now) ==
    Timestamp(now.day, now.minute) - Weekday(now.day) * MinutesPerDay
end_of_week(now) == start_of_week(now) + 6 * MinutesPerDay

\* datetime.date(): the day of a timestamp.
DateOf(ts) == ts \div MinutesPerDay

\* StudyAnalyzer.get_weekly_summary: the dates of week_data, compared as
\* dates.
get_weekly_summary(dates, now) ==
    {d \in dates : /\ DateOf(Midnight(d)) >= DateOf(start_of_week(now))
                   /\ DateOf(Midnight(d)) <= DateOf(end_of_week(now))}

\* show_target_setting, tab3: the dates of week_df, compared as timestamps.
week_df(dates, now) ==
    {d \in dates : /\ Midnight(d) >= start_of_week(now)
                   /\ Midnight(d) <= end_of_week(now)}

WeeklySummary ==
    /\ called.fn = NoCall.fn
    /\ \E dates \in WeekLogs, now \in Nows :
           called' = [fn |-> "get_weekly_summary",
                      arg |-> [dates |-> dates, now |-> now],
                      res |-> get_weekly_summary(dates, now)]
    /\ UNCHANGED <<storeVars, appVars, authVars, notifyVars>>

WeeklyProgress ==
    /\ called.fn = NoCall.fn
    /\ \E dates \in WeekLogs, now \in Nows :
           called' = [fn |-> "show_target_setting",
                      arg |-> [dates |-> dates, now |-> now],
                      res |-> week_df(dates, now)]
    /\ UNCHANGED <<storeVars, appVars, authVars, notifyVars>>

\* Bound: the entries of a log handed to the subject balance.
MaxSessions == 3

\* The entries of such a log: a subject and a duration in half hours.
BalanceSubjects == {"Physics", "Chemistry", "Botany"}
BalanceHalfHours == {0, 1, 2, 3}
Sessions == [Subject : BalanceSubjects, Duration : BalanceHalfHours]
BalanceLogs == UNION {[1..n -> Sessions] : n \in 0..MaxSessions}

\* groupby('Subject')[...].sum(): the subjects with entries, and the sum of
\* the durations of each.
RECURSIVE SubjectSum(_, _, _)
SubjectSum(log, subject, i) ==
    IF i = 0 THEN 0
    ELSE SubjectSum(log, subject, i - 1)
         + (IF log[i].Subject = subject THEN log[i].Duration ELSE 0)

GroupedSubjects(log) == {log[i].Subject : i \in 1..Len(log)}
subject_hours(log) ==
    [subject \in GroupedSubjects(log) |-> SubjectSum(log, subject, Len(log))]

RECURSIVE SumOver(_, _)
SumOver(f, S) ==
    IF S = {} THEN 0
    ELSE LET x == CHOOSE y \in S : TRUE
         IN  f[x] + SumOver(f, S \ {x})

\* Series.sum() of the grouped durations.
total_hours(log) == SumOver(subject_hours(log), GroupedSubjects(log))

\* A mutant of np_round: the digits after the last one kept are cut off.
np_truncate(num, den, scale) == (100 * scale * num) \div den

\* (num / den * 100).round(digits), in units of 1 / scale with
\* scale = 10 ^ digits: to the nearest unit, a tie to the even one.
np_round(num, den, scale) ==
    LET n == 100 * scale * num
        q == n \div den
        rem == n % den
    IN  IF 2 * rem < den THEN q
        ELSE IF 2 * rem > den THEN q + 1
        ELSE IF q % 2 = 0 THEN q ELSE q + 1

NoPercentages == [kind |-> "omitted", pct |-> <<>>]

\* The percentages are kept in hundredths of a percent.
Percentages(log, scale) ==
    [kind |-> "percentages",
     pct |-> [subject \in GroupedSubjects(log) |->
                  np_round(subject_hours(log)[subject], total_hours(log),
                           scale) * (100 \div scale)]]

\* StudyAnalyzer._analyze_subject_balance.
_analyze_subject_balance(log) ==
    IF log = <<>> THEN NoPercentages
    ELSE IF total_hours(log) = 0 THEN NoPercentages
    ELSE Percentages(log, 100)

\* show_dashboard, the Percentage column of subject_hours.
show_dashboard_percentage(log) ==
    IF log = <<>> THEN NoPercentages
    ELSE IF total_hours(log) > 0 THEN Percentages(log, 10)
    ELSE NoPercentages

AnalyzerBalance ==
    /\ called.fn = NoCall.fn
    /\ \E log \in BalanceLogs :
           called' = [fn |-> "_analyze_subject_balance", arg |-> log,
                      res |-> _analyze_subject_balance(log)]
    /\ UNCHANGED <<storeVars, appVars, authVars, notifyVars>>

DashboardBalance ==
    /\ called.fn = NoCall.fn
    /\ \E log \in BalanceLogs :
           called' = [fn |-> "show_dashboard", arg |-> log,
                      res |-> show_dashboard_percentage(log)]
    /\ UNCHANGED <<storeVars, appVars, authVars, notifyVars>>

\* The moments the scheduling helpers of notification_manager.py are called
\* at: a day of the week that starts on PeriodStart (a Monday), a minute of
\* that day and a second of that minute.
ScheduleMinutes == {0, 539, 540, 541, 1199, 1200, 1201, 1439}
ScheduleSeconds == {0, 30}
ScheduleNows == [day : NowDays, minute : ScheduleMinutes, second : ScheduleSeconds]

\* The reminder_time strings "HH:MM", as [hour, minute].
ReminderTimes == {[hour |-> 0, minute |-> 0], [hour |-> 9, minute |-> 0],
                  [hour |-> 20, minute |-> 1], [hour |-> 23, minute |-> 59]}

\* The time between two calls of datetime.now() in one helper, in seconds.
Delays == {0, 30}

\* A datetime, in seconds since the midnight that begins PeriodStart.
SecondsPerDay == 86400
Seconds(day, hour, minute, second) ==
    (day - PeriodStart) * SecondsPerDay + hour * 3600 + minute * 60 + second
DayOf(ts) == PeriodStart + ts \div SecondsPerDay
NowSeconds(now) == Seconds(now.day, 0, now.minute, now.second)

\* datetime.replace(hour=.., minute=.., second=0, microsecond=0)
AtTimeOfDay(ts, hour, minute) == Seconds(DayOf(ts), hour, minute, 0)

\* schedule_daily_reminder: the scheduled_time.
daily_reminder_time(now, reminder_time) ==
    LET scheduled_time == AtTimeOfDay(NowSeconds(now), reminder_time.hour,
                                      reminder_time.minute)
    IN  IF scheduled_time <= NowSeconds(now)
        THEN scheduled_time + SecondsPerDay
        ELSE scheduled_time

\* schedule_weekly_summary: the scheduled_time.
weekly_summary_time(now) ==
    LET days_until_sunday == (6 - Weekday(now.day)) % 7
    IN  AtTimeOfDay(NowSeconds(now) + days_until_sunday * SecondsPerDay, 20, 0)

\* schedule_motivation_quote: the scheduled_time; `delay` after the
\* datetime.now() it is computed from comes the one it is compared with.
motivation_quote_time(now, delay) ==
    LET scheduled_time == AtTimeOfDay(NowSeconds(now), 9, 0)
    IN  IF scheduled_time <= NowSeconds(now) + delay
        THEN scheduled_time + SecondsPerDay
        ELSE scheduled_time

ScheduleDailyReminder ==
    /\ called.fn = NoCall.fn
    /\ \E now \in ScheduleNows, reminder_time \in ReminderTimes :
           /\ called' = [fn |-> "schedule_daily_reminder",
                         arg |-> [now |-> now, reminder_time |-> reminder_time],
                         res |-> NowSeconds(now)]
           /\ Enqueue(daily_reminder_time(now, reminder_time))
    /\ UNCHANGED <<is_running, loops, ntime, sent>>
    /\ UNCHANGED <<storeVars, appVars, authVars>>

ScheduleWeeklySummary ==
    /\ called.fn = NoCall.fn
    /\ \E now \in ScheduleNows :
           /\ called' = [fn |-> "schedule_weekly_summary",
                         arg |-> [now |-> now],
                         res |-> NowSeconds(now)]
           /\ Enqueue(weekly_summary_time(now))
    /\ UNCHANGED <<is_running, loops, ntime, sent>>
    /\ UNCHANGED <<storeVars, appVars, authVars>>

ScheduleMotivationQuote ==
    /\ called.fn = NoCall.fn
    /\ \E now \in ScheduleNows, delay \in Delays :
           /\ called' = [fn |-> "schedule_motivation_quote",
                         arg |-> [now |-> now, delay |-> delay],
                         res |-> NowSeconds(now) + delay]
           /\ Enqueue(motivation_quote_time(now, delay))
    /\ UNCHANGED <<is_running, loops, ntime, sent>>
    /\ UNCHANGED <<storeVars, appVars, authVars>>

CalcNext ==
    \/ ValidateEntry
    \/ Progress
    \/ ConsistencyScore
    \/ WeeklySummary
    \/ WeeklyProgress
    \/ AnalyzerBalance
    \/ DashboardBalance
    \/ ScheduleDailyReminder
    \/ ScheduleWeeklySummary
    \/ ScheduleMotivationQuote

(***************************************************************************)
(* Claims about data_manager.py                                            *)
(***************************************************************************)

\* C1: whenever a step of save_data raises (backup rename, open, write,
\* backup removal), save_data returns False and afterwards the main file
\* holds exactly what it held before the call and no .backup file remains;
\* when no step raises it returns True, the main file holds the new content
\* and no .backup file remains.
C1_SaveIsAllOrNothing ==
    (pc = "idle" /\ ret # "none") =>
        IF raisedIn # "none"
        THEN ret = "False" /\ mainFile = prev /\ backupFile = Absent
        ELSE ret = "True" /\ mainFile = JsonText(arg) /\ backupFile = Absent

\* C2: from the call of save_data on, through every intermediate point at
\* which the process can crash, the complete collection the main file held
\* when save_data was called is still on disk, in the main file or in the
\* .backup file, unless the new collection has been written completely to
\* the main file; after a crash between the backup rename and the end of
\* the write the backup holds the original content.
C2_OldCollectionSurvives ==
    prev.kind = "full" =>
        /\ \/ mainFile = prev
           \/ backupFile = prev
           \/ (arg # Unserializable /\ mainFile = JsonText(arg))
        /\ (pc = "crashed" /\ crashAt \in {"open", "write"}) => backupFile = prev

\* C13: load_data never raises to its caller; it returns [] when the file
\* is absent or holds no JSON text, and the parsed content of a file that
\* can be read and holds one.
C13_LoadFailsSoft ==
    loaded.kind # "none" =>
        /\ loaded.kind # "raised"
        /\ loaded.file.kind \in {"absent", "partial"} => loaded.kind = "empty"
        /\ (loaded.file.kind = "full" /\ loaded.exc = "none") =>
               (loaded.kind = "list" /\ loaded.data = loaded.file.data)

\* A truncated file was loaded as [].
C13_Witness ==
    /\ loaded.kind = "empty"
    /\ loaded.file.kind = "partial"
    /\ loaded.exc = "JSONDecodeError"

\* C14: when save_data(name, X) has returned True for a collection X of
\* plain records, a load_data(name) that follows it and can read the file
\* returns X, whatever the file held before the save.
C14_SaveThenLoad ==
    (pc = "idle" /\ ret = "True" /\ arg \in Collections
        /\ loaded.kind # "none" /\ loaded.exc = "none") =>
        (loaded.kind = "list" /\ loaded.data = arg)

\* A collection was saved over another one and loaded back.
C14_Witness ==
    /\ pc = "idle"
    /\ ret = "True"
    /\ arg \in Collections
    /\ prev.kind = "full"
    /\ prev # JsonText(arg)
    /\ loaded.kind = "list"
    /\ loaded.data = arg

\* What C15 asks of a record: the three keys, a calendar date, a subject of
\* the closed set, and a duration "<number> hr" with 0 <= number <= 24.
WellFormedEntry(entry) ==
    /\ entry.missing \cap required_fields = {}
    /\ DateParses(entry.Date)
    /\ entry.Subject \in valid_subjects
    /\ entry.Duration.kind = "str"
    /\ Len(entry.Duration.tokens) = 2
    /\ entry.Duration.tokens[1].t = "num"
    /\ entry.Duration.tokens[1].v \in 0..(2 * 24)
    /\ entry.Duration.tokens[2] = Hr

\* C15: validate_study_entry returns True exactly for the records that have
\* the three keys, a valid calendar date YYYY-MM-DD, a subject of the closed
\* set and a duration "<number> hr" with 0 <= number <= 24, and False for
\* every other record.
C15_ValidatorAcceptsExactlyWellFormed ==
    called.fn = "validate_study_entry" =>
        called.res = (IF WellFormedEntry(called.arg) THEN "True" ELSE "False")

\* C16: for every record that has the three required keys, whatever their
\* values, validate_study_entry returns True or False; it never raises.
C16_ValidatorNeverRaises ==
    (called.fn = "validate_study_entry"
        /\ called.arg.missing \cap required_fields = {}) =>
        called.res \in {"True", "False"}

\* C29: when a save_data call crashed between the rename to .backup and the
\* end of the write and left a backup behind, load_data returns what the main
\* file alone yields (its list, or the empty list when it is absent, partial
\* or unreadable), and when the next save_data has returned True the backup
\* is gone and the main file holds the collection just saved.
C29_StaleBackupIsDiscarded ==
    stale # Absent =>
        /\ loaded.kind # "none" =>
               /\ loaded.file = mainFile
               /\ loaded.kind \in {"list", "empty"}
               /\ loaded.kind = "list" =>
                      mainFile.kind = "full" /\ loaded.data = mainFile.data
               /\ mainFile.kind \in {"absent", "partial"} => loaded.kind = "empty"
        /\ ret = "True" =>
               /\ backupFile = Absent
               /\ mainFile = JsonText(arg)

\* A crash left collection 1 in the backup; the next save_data, of
\* collection 2, has returned True.
C29_Witness ==
    /\ stale = Full(1)
    /\ pc = "idle"
    /\ ret = "True"
    /\ arg = 2
    /\ mainFile = Full(2)
    /\ backupFile = Absent

(***************************************************************************)
(* Claims about the study log and the streaks                              *)
(***************************************************************************)

\* The length of the maximal run of consecutive days of S that ends at the
\* latest day of S (S not empty).
TrailingRun(S) ==
    LET last == CHOOSE x \in S : \A y \in S : y <= x
    IN  CHOOSE k \in 1..Cardinality(S) :
            /\ \A j \in 0..(k - 1) : (last - j) \in S
            /\ (last - k) \notin S

\* C3: every entry written to the persisted study log, through Save Study
\* Entry or through data import, passes validate_study_entry (required
\* fields, a date that parses, a subject of the closed set, a duration
\* "<number> hr" within 0..24).
C3_PersistedEntriesPassValidator ==
    studyFile.exists =>
        \A i \in DOMAIN studyFile.log :
            validate_study_entry(studyFile.log[i]) = "True"

\* C4: for every non-empty history, StudyAnalyzer._calculate_streak returns
\* the length of the maximal run of consecutive calendar days with an entry
\* that ends at the most recent studied date.
C4_AnalyzerStreakEndsAtLatestDate ==
    (analyzed.kind = "ok" /\ ~analyzed.raised /\ data # <<>>) =>
        analyzed.streak = TrailingRun(DateOrdinals(data))

\* C5: calculate_stats reports 0 as 'streak' for an empty history and,
\* whenever the dashboard reports statistics of a non-empty history, as
\* 'streak' the length of the maximal run of consecutive calendar days with
\* an entry that ends at the most recent studied date.
C5_DashboardStreakEndsAtLatestDate ==
    /\ calculate_stats(<<>>).streak = 0
    /\ stats.kind = "ok" =>
           /\ data # <<>>
           /\ stats.streak = TrailingRun(DateOrdinals(data))

\* C5 witness: a history of three days, a gap before the last two, streak 2.
C5_Witness ==
    /\ stats.kind = "ok"
    /\ Cardinality(DateOrdinals(data)) = 3
    /\ stats.streak = 2

\* The spec's reference cases for a streak n computed from the log.
ReferenceStreak(n) ==
    LET S == DateOrdinals(data)
    IN  /\ data = <<>> => n = 0
        /\ (data # <<>> /\ Cardinality(S) = 1) => n = 1
        /\ (\E d \in S : S = {d, d - 1, d - 2}) => n = 3
        /\ (\E d \in S : S = {d, d - 2}) => n = 1

\* C6: on the reference cases both streak implementations agree with the
\* spec: an empty history gives 0, a single date 1, {d, d-1, d-2} gives 3
\* and {d, d-2} gives 1.
C6_ReferenceStreaks ==
    /\ calculate_stats(<<>>).streak = 0
    /\ stats.kind = "ok" => ReferenceStreak(stats.streak)
    /\ (analyzed.kind = "ok" /\ ~analyzed.raised) => ReferenceStreak(analyzed.streak)

\* C6 witness: three consecutive days, across the end of February, and the
\* dashboard reports 3.
C6_Witness ==
    /\ stats.kind = "ok"
    /\ DateOrdinals(data) = {Ordinal(Ymd(2025, 3, 1)), Ordinal(Ymd(2025, 3, 1)) - 1,
                             Ordinal(Ymd(2025, 3, 1)) - 2}
    /\ stats.streak = 3

(***************************************************************************)
(* Claims about the import and the log of Neet.py                          *)
(***************************************************************************)

IsPrefix(a, b) == Len(a) <= Len(b) /\ SubSeq(b, 1, Len(a)) = a

C17_ProgressWithinRange ==
    called.fn = "progress" =>
        LET a == called.arg
            r == called.res
        IN  /\ r.hours_percent \in 0..100
            /\ r.questions_percent \in 0..100
            /\ a.target_hours = 0 => r.hours_percent = 0
            /\ a.target_questions = 0 => r.questions_percent = 0
            /\ (a.hours = 2 * 5 /\ a.target_hours = 10) => r.hours_percent = 50
            /\ (a.hours = 2 * 20 /\ a.target_hours = 10) => r.hours_percent = 100
            /\ (a.questions = 5 /\ a.target_questions = 10) =>
                   r.questions_percent = 50
            /\ (a.questions = 150 /\ a.target_questions = 100) =>
                   r.questions_percent = 100

(***************************************************************************)
(* Claims about the analyzer's scores                                      *)
(***************************************************************************)

\* C18, as stated: the score of a non-empty history is the number of days
\* with an entry over the number of days from the earliest to the latest
\* entry, times 100 and rounded to 2 decimals; entries on every day give
\* 100.0, entries on 1 day of a period of 10 days give 10.0, and the empty
\* history gives 0.
C18_ConsistencyAsStated ==
    called.fn = "_calculate_consistency_score" =>
        LET dates == called.arg
            n == Cardinality(dates)
        IN  /\ dates = {} => called.res = 0
            /\ dates # {} =>
                   called.res =
                       RoundedPercent(n, SetMax(dates) - SetMin(dates) + 1)
            /\ (dates # {} /\ n = SetMax(dates) - SetMin(dates) + 1) =>
                   called.res = 100 * 100
            /\ (n = 1 /\ PeriodDays = 10) => called.res = 10 * 100

\* C18, amended: the same, except that the period is the one the entries
\* span: entries on one day only give 100.0, and entries on 2 of the 10 days
\* they span give 20.0.
C18_Consistency ==
    called.fn = "_calculate_consistency_score" =>
        LET dates == called.arg
            n == Cardinality(dates)
        IN  /\ dates = {} => called.res = 0
            /\ dates # {} =>
                   called.res =
                       RoundedPercent(n, SetMax(dates) - SetMin(dates) + 1)
            /\ (dates # {} /\ n = SetMax(dates) - SetMin(dates) + 1) =>
                   called.res = 100 * 100
            /\ (dates # {} /\ n = 1) => called.res = 100 * 100
            /\ (n = 2 /\ SetMax(dates) - SetMin(dates) + 1 = 10) =>
                   called.res = 20 * 100

\* Entries on 2 days, 10 days apart inclusive, scored 20.0.
C18_Witness ==
    /\ called.fn = "_calculate_consistency_score"
    /\ Cardinality(called.arg) = 2
    /\ PeriodStart \in called.arg
    /\ (PeriodStart + 9) \in called.arg
    /\ called.res = 20 * 100

\* C19: an entry is counted in the weekly summary and in the weekly progress
\* of the targets exactly when its date lies between the Monday and the
\* Sunday, both inclusive, of the week that contains 'now', at whatever time
\* of day 'now' falls.
C19_CurrentWeekWindow ==
    called.fn \in {"get_weekly_summary", "show_target_setting"} =>
        LET monday == called.arg.now.day - Weekday(called.arg.now.day)
        IN  called.res =
                {d \in called.arg.dates : monday <= d /\ d <= monday + 6}

\* C20, as stated: when the total duration is greater than 0 there is one percentage
\* per subject with entries, each the subject's share of the total duration
\* rounded to 1 decimal, and the percentages sum to 100 up to the rounding
\* error (half of a tenth per subject); when the total duration is 0 no
\* percentage is produced (and nothing is divided by zero).
C20_SubjectBalanceAsStated ==
    called.fn \in {"_analyze_subject_balance", "show_dashboard"} =>
        LET log == called.arg
            grouped == {log[i].Subject : i \in 1..Len(log)}
            hours(subject) == SubjectSum(log, subject, Len(log))
            total == SumOver([subject \in grouped |-> hours(subject)], grouped)
            sum == SumOver(called.res.pct, grouped)
        IN  /\ total > 0 =>
                /\ called.res.kind = "percentages"
                /\ DOMAIN called.res.pct = grouped
                /\ \A subject \in grouped :
                       /\ called.res.pct[subject] % 10 = 0
                       /\ 2 * total * called.res.pct[subject]
                              - 2 * 10000 * hours(subject) \in
                                  (-10 * total)..(10 * total)
                /\ 2 * (sum - 10000) \in
                       (-10 * Cardinality(grouped))..(10 * Cardinality(grouped))
            /\ total = 0 => called.res = NoPercentages

\* C20, amended: the same, except that the analyzer rounds each share to 2
\* decimals (the dashboard to 1), and the sum is within half of the last
\* digit kept per subject.
C20_SubjectBalance ==
    called.fn \in {"_analyze_subject_balance", "show_dashboard"} =>
        LET log == called.arg
            grouped == {log[i].Subject : i \in 1..Len(log)}
            hours(subject) == SubjectSum(log, subject, Len(log))
            total == SumOver([subject \in grouped |-> hours(subject)], grouped)
            sum == SumOver(called.res.pct, grouped)
            unit == IF called.fn = "show_dashboard" THEN 10 ELSE 1
        IN  /\ total > 0 =>
                /\ called.res.kind = "percentages"
                /\ DOMAIN called.res.pct = grouped
                /\ \A subject \in grouped :
                       /\ called.res.pct[subject] % unit = 0
                       /\ 2 * total * called.res.pct[subject]
                              - 2 * 10000 * hours(subject) \in
                                  (-unit * total)..(unit * total)
                /\ 2 * (sum - 10000) \in
                       (-unit * Cardinality(grouped))
                           ..(unit * Cardinality(grouped))
            /\ total = 0 => called.res = NoPercentages

\* The analyzer gave 33.33 and 66.67 for one and two of three half hours.
C20_Witness ==
    /\ called.fn = "_analyze_subject_balance"
    /\ called.res.kind = "percentages"
    /\ DOMAIN called.res.pct = {"Physics", "Chemistry"}
    /\ called.res.pct["Physics"] = 3333
    /\ called.res.pct["Chemistry"] = 6667

(***************************************************************************)
(* Claims about auth_manager.py                                            *)
(***************************************************************************)

\* C7: the fifth consecutive failed password attempt on an existing account
\* locks it until 30 minutes after that call (no attempt on an account that
\* has seen five of them is answered as a plain failure), and every
\* authenticate_user call that leaves the account locked, whatever the
\* password, failed with a lockout message and issued no token.
C7_Lockout ==
    LET r == authResult IN
    (r.op = "authenticate_user" /\ users[r.user].exists) =>
        /\ r.msg = InvalidCredentials => activeRun[r.user] < MAX_FAILED_ATTEMPTS
        /\ r.msg = AccountLockedNow =>
               users[r.user].locked_until = clock + LOCK_MINUTES
        /\ users[r.user].locked_until > clock =>
               /\ ~r.ok
               /\ r.token = NoToken
               /\ r.msg \in {AccountIsLocked, AccountLockedNow}

\* The correct password is refused a quarter of an hour into the lock.
C7_Witness ==
    LET r == authResult IN
    /\ r.op = "authenticate_user"
    /\ r.pwdCorrect
    /\ r.msg = AccountIsLocked
    /\ users[r.user].failed_attempts = MAX_FAILED_ATTEMPTS
    /\ users[r.user].locked_until > clock
    /\ users[r.user].locked_until < clock + LOCK_MINUTES

\* C8: once the lock time has elapsed the account is Active again: the
\* correct password authenticates, and the account is locked again only by
\* five consecutive failed password attempts made since it became Active.
C8_LockCycle ==
    LET r == authResult IN
    (r.op = "authenticate_user" /\ users[r.user].exists) =>
        /\ (r.pwdCorrect /\ ~(users[r.user].locked_until > clock)) => r.ok
        /\ r.msg = AccountLockedNow => r.run >= MAX_FAILED_ATTEMPTS

\* C9: a successful authenticate_user leaves failed_attempts at 0 and
\* last_login at the time of the call, and an account is locked only when the
\* five most recent password attempts since the last success all failed.
C9_OnlyConsecutiveFailuresLock ==
    LET r == authResult IN
    /\ (r.op = "authenticate_user" /\ r.ok) =>
           /\ users[r.user].failed_attempts = 0
           /\ users[r.user].last_login = clock
    /\ \A u \in Usernames :
           (users[u].exists /\ users[u].locked_until > clock) =>
               trailingFails[u] >= MAX_FAILED_ATTEMPTS

\* An account that has logged in before is locked by its fifth failure.
C9_Witness ==
    LET r == authResult IN
    /\ r.op = "authenticate_user"
    /\ r.msg = AccountLockedNow
    /\ users[r.user].last_login # NoTime
    /\ users[r.user].failed_attempts = MAX_FAILED_ATTEMPTS
    /\ trailingFails[r.user] = MAX_FAILED_ATTEMPTS

\* C10: validate_token returns (True, u) only for a token that
\* authenticate_user issued for u less than 24 hours ago, signed with the
\* current key, while u is in the account map; otherwise (False, None).
C10_TokenFailsClosed ==
    LET r == authResult IN
    r.op = "validate_token" =>
        /\ r.ok =>
               /\ \E it \in issued :
                      /\ it[1] = r.token
                      /\ clock - it[2] < TOKEN_MINUTES
               /\ r.token.sig = Sign(secret_key, r.name, r.token.exp)
               /\ users[r.name].exists
        /\ ~r.ok => r.name = ""

\* C11: change_password replaces the password hash, and nothing else, only
\* when old_password is the current password; reset_password replaces it, by
\* the hash of the temporary password, only when the email given is the
\* account's. When the check fails, or the user is unknown, the call returns
\* failure and leaves the account map and auth.json as they were.
C11_PasswordReplacedOnlyAfterCheck ==
    [][LET r == authResult' IN
       /\ r.op = "change_password" =>
              /\ users' # users =>
                     /\ r.pwdCorrect
                     /\ users' = [users EXCEPT ![r.user].password =
                                     users'[r.user].password]
              /\ ~r.pwdCorrect =>
                     ~r.ok /\ users' = users /\ authFile' = authFile
       /\ r.op = "reset_password" =>
              /\ users' # users =>
                     /\ r.emailMatches
                     /\ users' = [users EXCEPT ![r.user].password =
                                     _hash_password(temp_password)]
              /\ ~r.emailMatches =>
                     ~r.ok /\ users' = users /\ authFile' = authFile
      ]_vars

\* A wrong current password was refused for an existing account.
C11_Witness ==
    LET r == authResult IN
    /\ r.op = "change_password"
    /\ users[r.user].exists
    /\ ~r.pwdCorrect
    /\ ~r.ok
    /\ r.msg = "Invalid current password"

\* C12: whenever an AuthManager operation has changed the in-memory account
\* map, auth.json holds a complete dump of that map when the operation
\* returns, also when the operation reports that the save failed.
C12_FileEqualsAccountMap ==
    [][users' # users => authFile' = DumpOf(users')]_vars

\* C24: authenticate_user answers an unknown username and a wrong password
\* for an existing account that is not locked and is not locked by this
\* attempt with the same result (False, "Invalid username or password", no
\* token); it answers with a lockout message only when the account is locked
\* as the call returns; no failed call returns a token.
C24_GenericFailure ==
    LET r == authResult
        generic == ~r.ok /\ r.msg = InvalidCredentials /\ r.token = NoToken
    IN
    r.op = "authenticate_user" =>
        /\ ~users[r.user].exists => generic
        /\ (/\ users[r.user].exists
            /\ ~r.pwdCorrect
            /\ ~IsLocked(users[r.user], clock)) => generic
        /\ r.msg \in {AccountIsLocked, AccountLockedNow} =>
               users[r.user].exists /\ IsLocked(users[r.user], clock)
        /\ ~r.ok => r.token = NoToken

\* The fourth wrong password for an account: one more would lock it.
C24_Witness ==
    LET r == authResult IN
    /\ r.op = "authenticate_user"
    /\ users[r.user].exists
    /\ ~r.pwdCorrect
    /\ ~r.ok
    /\ r.msg = InvalidCredentials
    /\ r.token = NoToken
    /\ users[r.user].failed_attempts = MAX_FAILED_ATTEMPTS - 1

\* C28: while an account is locked, a call of authenticate_user or
\* change_password for it fails, does not answer that the password given is
\* wrong, and leaves the stored password as it was; and a wrong current
\* password given to change_password for an account that is not locked adds
\* one to failed_attempts.
C28_LockoutNotBypassed ==
    [][LET r == authResult' IN
       (r.op \in {"authenticate_user", "change_password"} /\ users[r.user].exists) =>
           /\ IsLocked(users[r.user], clock) =>
                  /\ ~r.ok
                  /\ r.msg \notin {InvalidCredentials, "Invalid current password"}
                  /\ users'[r.user].password = users[r.user].password
           /\ (/\ r.op = "change_password"
               /\ ~r.pwdCorrect
               /\ ~IsLocked(users[r.user], clock)) =>
                  users'[r.user].failed_attempts = users[r.user].failed_attempts + 1
      ]_vars

(***************************************************************************)
(* Claims about notification_manager.py                                    *)
(***************************************************************************)

\* C23, as stated: a thread whose test of the flag read False after
\* stop_notification_service has returned from the loop, and no notification
\* is handed to _send_notification in a pass that began, by reading the
\* time, while the service was stopped.
C23_CancellationAsStated ==
    /\ \A t \in LoopThreads :
           loops[t].lastCheck = "stopped" => loops[t].pc = "done"
    /\ \A rec \in BagToSet(sent) : rec.begun = "running"

\* C23: a thread whose test of the flag read False has returned from the
\* loop, and every notification handed to _send_notification was handed over
\* in an iteration of the loop whose test of the flag read True.
C23_Cancellation ==
    /\ \A t \in LoopThreads :
           loops[t].lastCheck = "stopped" => loops[t].pc = "done"
    /\ \A rec \in BagToSet(sent) : rec.check = "running"

\* The thread has ended after a stop and left a due notification in the
\* queue, never dispatched.
C23_Witness ==
    /\ ~is_running
    /\ loops["t1"].pc = "done"
    /\ loops["t2"].pc = "unborn"
    /\ notification_queue = <<Notification(0)>>
    /\ sent = EmptyBag

\* How often a notification scheduled for `at` was handed to
\* _send_notification, how many of them the queue holds, and how many a
\* thread has sent and not yet removed.
SentCount(at) ==
    BagCardinality([rec \in {r \in BagToSet(sent) :
                                  r.notification = Notification(at)} |-> sent[rec]])

QueueCount(at) ==
    Cardinality({k \in DOMAIN notification_queue :
                     notification_queue[k] = Notification(at)})

InFlight(at) ==
    Cardinality({t \in LoopThreads :
                     /\ loops[t].pc = "remove"
                     /\ loops[t].copy[loops[t].i] = Notification(at)})

\* C25: with one polling loop, a notification is handed to
\* _send_notification only in a pass whose current time is at or after its
\* scheduled_time; no more notifications of a scheduled time are dispatched
\* than were accepted; and once the pass is past the remove() that follows the
\* dispatch, every dispatched notification, sent or failed, is out of the
\* queue.
C25_DispatchSafety ==
    /\ \A rec \in BagToSet(sent) :
           /\ rec.notification.scheduled_time <= rec.current_time
           /\ rec.current_time <= ntime
    /\ \A at \in ScheduleTimes :
           /\ SentCount(at) <= CopiesIn(at, accepted)
           /\ InFlight(at) = 0 =>
                  QueueCount(at) = CopiesIn(at, accepted) - SentCount(at)

\* A notification due at once and one due later: the first was dispatched
\* and failed, the second was dispatched in a later pass, and the queue is
\* empty.
C25_Witness ==
    /\ accepted = SetToBag(ScheduleTimes)
    /\ \E rec \in BagToSet(sent) :
           rec.notification = Notification(0) /\ ~rec.ok /\ rec.current_time = 0
    /\ \E rec \in BagToSet(sent) :
           rec.notification = Notification(1) /\ rec.ok /\ rec.current_time = 1
    /\ notification_queue = <<>>
    /\ loops["t1"].pc = "sleep"

Alive == {t \in LoopThreads : loops[t].pc \notin {"unborn", "done", "crashed"}}

\* C27: after any sequence of start_notification_service and
\* stop_notification_service calls at most one thread is in
\* _notification_loop, and no notification is dispatched more often than it
\* was accepted.
C27_AtMostOneLoop ==
    /\ Cardinality(Alive) <= 1
    /\ \A at \in ScheduleTimes : SentCount(at) <= CopiesIn(at, accepted)

\* C30: the notification that schedule_daily_reminder,
\* schedule_motivation_quote or schedule_weekly_summary has put in the queue
\* has a scheduled_time strictly later than the time of the call (called.res:
\* the last time the helper read the clock).
C30_ScheduledInTheFuture ==
    called.fn \in {"schedule_daily_reminder", "schedule_motivation_quote",
                   "schedule_weekly_summary"} =>
        /\ Len(notification_queue) = 1
        /\ notification_queue[1].scheduled_time > called.res

Init == StoreInit /\ AppInit /\ AuthInit /\ CalcInit /\ NotifyInit

\* The store, the application and the functions called on their own read
\* neither the time zone nor auth.json.
InitUTC == Init /\ utcOffset = 0 /\ disk = "sound"

\* The account manager on a disk that takes every write, in any time zone.
InitAuth == Init /\ disk = "sound"

\* The account manager on a disk whose writes can fail.
InitAuthSave == Init /\ utcOffset = 0 /\ disk # "sound"

SpecStore == InitUTC /\ [][StoreNext]_vars

SpecApp == InitUTC /\ [][AppNext]_vars

SpecSession == InitUTC /\ [][SessionNext]_vars

InitLog ==
    /\ StoreInit /\ LogStartup /\ AuthInit /\ CalcInit /\ NotifyInit
    /\ utcOffset = 0 /\ disk = "sound"

SpecLog == InitLog /\ [][LogNext]_vars

SpecAuth == InitAuth /\ [][AuthNext]_vars

SpecAuthSave == InitAuthSave /\ [][AuthNext]_vars

SpecCalc == InitUTC /\ [][CalcNext]_vars

SpecNotify == InitUTC /\ [][NotifyNext]_vars

\* The loop thread is scheduled again and again, and time passes.
SpecPoller ==
    InitUTC /\ [][PollerNext]_vars /\ WF_vars(LoopStep) /\ WF_vars(Tick)

====
